---- MODULE Spec2Model ----
(***************************************************************************)
(* Model of the open data scanner: the harvest (Inventory.inventory, its   *)
(* worker tasks and complete_missing_fields, src/inventories.py), the      *)
(* catalogue search and the HTTP clients (DataCatalogue.search_datasets,   *)
(* RequestsDataCatalogue.request_ckan, TenaciousSession, src/tools.py),    *)
(* the currency rule (Inventory.get_up_to_date with date_ago,              *)
(* src/helper_functions.py) and the compliance rules get_spec,             *)
(* get_open_formats and infer_modified (src/inventories.py).               *)
(***************************************************************************)

EXTENDS Integers, Sequences, FiniteSets, TLC

(***************************************************************************)
(* Bounds and program constants                                            *)
(***************************************************************************)
\* Number of dataset ids the catalogue holds at most, and so the largest
\* number of worker tasks of one harvest.
MaxIds == 2

\* Largest whole n handed to date_ago directly.
MaxN == 14

\* Largest count n written in a frequency token P<n><unit>.
MaxCount == 3

\* rows=100 / i += 100 in search_datasets.
ROWS == 100

\* A missing value of a table cell (pandas NaN / <NA>): the cell of a column
\* the appended record has no key for.  Dataset ids are 1..MaxIds.
NA == 0

Tasks == 1..MaxIds

\* The catalogue fixture, len(dataset['resources']) by dataset id: dataset 1
\* carries two resources, dataset 2 one, any further dataset none.
NumResources(id) == IF id = 1 THEN 2 ELSE IF id = 2 THEN 1 ELSE 0

\* The datasets_ids argument of inventory(): None (given = FALSE), the
\* explicit empty list, the first n ids of the catalogue, and one list that
\* names an id twice.
IdLists ==
    {[given |-> FALSE, ids |-> <<>>], [given |-> TRUE, ids |-> <<>>],
     [given |-> TRUE, ids |-> <<1, 1>>]}
    \cup {[given |-> TRUE, ids |-> [k \in 1..n |-> k]] : n \in 1..MaxIds}

\* What get_dataset returned, by what add_dataset makes of it: "ok" when every
\* field read by lines 51-97 is there, "fail_at_id" when dataset['id'] raises,
\* "fail_after_id" when a later field raises.
Payloads == {"ok", "fail_at_id", "fail_after_id"}

VARIABLES
    dcKind,        \* "requests" (RequestsDataCatalogue) or "driver" (DriverDataCatalogue)
    ids_arg,       \* the datasets_ids argument of inventory()
    catalogue,     \* the ids the portal holds for owner_org, in search order
    mpc,           \* position of the thread that runs inventory()
    datasets_ids,  \* the id list the tasks are submitted for
    count,         \* search_datasets: count
    list_id,       \* search_datasets: list_id
    i,             \* search_datasets: i (the offset)
    nSearch,       \* request_ckan calls made by search_datasets
    nGet,          \* get_dataset calls made by the worker tasks
    submitted,     \* number of tasks handed to the executor
    pc,            \* position of each worker task
    dataset,       \* the payload each task fetched ("none" before)
    ri,            \* each task: number of the resource being added
    res_ok,        \* each task: did add_resource normalise resource 1, 2, ...
    idx,           \* each task: len(table) read for the pending append
    driver_lock,   \* Free, or the task that acquired it
    datasets_lock,
    resources_lock,
    datasets,      \* the datasets table: rows in index order
    resources,     \* the resources table: rows in index order
    pbar_n,        \* tqdm progress counter
    pbar_total,    \* tqdm total
    cmf_pc,        \* complete_missing_fields: "idle" (not called), "running",
                   \* "ready" or "raised"
    derived,       \* the derived columns written so far, in order of writing
    da_call,       \* date_ago: the arguments of the call (n, unit, from_)
    da_out,        \* date_ago: what the call returned or raised
    now,           \* complete_up_to_date: the now argument
    utd_table,     \* complete_up_to_date: the rows of self.datasets
    utd_col,       \* complete_up_to_date: the values computed so far
    utd_pc,        \* complete_up_to_date: "apply", "assigned" or "raised"
    cf_in,         \* a compliance rule called on its own: the arguments
    cf_out,        \* a compliance rule called on its own: the outcome
    sd_stable,     \* search_datasets called on its own: has every response
                   \* so far been true to the catalogue listing
    rl_num_calls,  \* rate limiter of request_ckan: num_calls
    rl_age,        \* rate limiter: clock() - last_reset, in ticks
    rl_admitted,   \* HTTP calls sent since the limiter's last reset
    rl_pc          \* position of each caller of the HTTP clients

inputVars == <<dcKind, ids_arg, catalogue>>
searchVars == <<count, list_id, i, nSearch>>
taskVars == <<pc, dataset, ri, res_ok, idx, nGet>>
lockVars == <<driver_lock, datasets_lock, resources_lock>>
tableVars == <<datasets, resources>>
cmfvars == <<cmf_pc, derived>>

hvars == <<inputVars, searchVars, taskVars, lockVars, tableVars, mpc,
           datasets_ids, submitted, pbar_n, pbar_total, cmfvars>>

davars == <<da_call, da_out>>
utdvars == <<now, utd_table, utd_col, utd_pc>>
cfvars == <<cf_in, cf_out>>

sdvars == <<sd_stable>>
rlvars == <<rl_num_calls, rl_age, rl_admitted, rl_pc>>

\* The variables outside the harvest and its completion passes.
offHarvestBase == <<davars, utdvars, cfvars, sdvars, rlvars>>

\* What a step of the harvest leaves alone.
offHarvest == <<offHarvestBase, cmfvars>>

vars == <<hvars, davars, utdvars, cfvars, sdvars, rlvars>>

(***************************************************************************)
(* Locks (threading.Lock)                                                  *)
(***************************************************************************)
Free == 0

\* lock.acquire() with no lock at all: every caller passes.
CanAcquireUnguarded(lock) == TRUE

\* lock.acquire() returns only when the lock is free.
CanAcquire(lock) == lock = Free

\* A table append that ends without lock.release().
ReleaseForgotten(t) == t

\* lock.release() of the task that holds a table lock: the lock is free.
Release(t) == Free

(***************************************************************************)
(* Tables                                                                  *)
(***************************************************************************)
\* df.loc[n] = record: the row is written at index n (0-based), enlarging
\* the table when n = len(df) and overwriting the row otherwise.
SetRow(table, n, row) ==
    IF n = Len(table) THEN Append(table, row)
    ELSE [table EXCEPT ![n + 1] = row]

\* The record add_dataset has built when it reaches the append.  A payload
\* that normalises gives the full record; one that fails after line 51 gives
\* the keys set so far (id among them); one that fails at line 51 gives {}.
DatasetRecord(id, norm) ==
    [id |-> IF norm = "fail_at_id" THEN NA ELSE id,
     complete |-> norm = "ok"]

ResourceRecord(id, r) == [dataset_id |-> id, id |-> r]

\* sort_values(by=key) then reset_index(drop=True): the rows in non-decreasing
\* key order, missing keys last, rows of equal key in their order of
\* appearance; keys[k] is the key of row k.
SortValues(table, keys) ==
    LET n == Len(table)
        Less(a, b) == a # NA /\ (b = NA \/ a < b)
        Before(j, k) == Less(keys[j], keys[k]) \/ (keys[j] = keys[k] /\ j < k)
        Rank(k) == Cardinality({j \in 1..n : Before(j, k)}) + 1
    IN [p \in 1..n |-> table[CHOOSE k \in 1..n : Rank(k) = p]]

DatasetKeys(table) == [k \in 1..Len(table) |-> table[k].id]
ResourceKeys(table) == [k \in 1..Len(table) |-> table[k].dataset_id]

(***************************************************************************)
(* Calendar dates (datetime at day resolution; every branch of date_ago    *)
(* for whole n leaves the time of day as it is)                            *)
(***************************************************************************)
Date(y, m, d) == [year |-> y, month |-> m, day |-> d]

IsLeap(y) == y % 4 = 0 /\ (y % 100 # 0 \/ y % 400 = 0)

\* calendar.monthrange(year, month)[1]
DaysInMonth(y, m) ==
    IF m = 2 THEN (IF IsLeap(y) THEN 29 ELSE 28)
    ELSE IF m \in {4, 6, 9, 11} THEN 30 ELSE 31

IsValidDate(d) ==
    /\ d.year >= 1
    /\ d.month \in 1..12
    /\ d.day >= 1
    /\ d.day <= DaysInMonth(d.year, d.month)

RECURSIVE DaysBeforeMonth(_, _)
DaysBeforeMonth(y, m) ==
    IF m = 1 THEN 0 ELSE DaysBeforeMonth(y, m - 1) + DaysInMonth(y, m - 1)

DaysBeforeYear(y) ==
    LET p == y - 1 IN p * 365 + (p \div 4) - (p \div 100) + (p \div 400)

\* datetime.toordinal()
ToOrdinal(d) == DaysBeforeYear(d.year) + DaysBeforeMonth(d.year, d.month) + d.day

\* datetime.fromordinal(n)
FromOrdinal(n) ==
    LET y == CHOOSE c \in (n \div 366)..(n \div 365 + 1) :
                 DaysBeforeYear(c) < n /\ n <= DaysBeforeYear(c + 1)
        doy == n - DaysBeforeYear(y)
        m == CHOOSE c \in 1..12 :
                 /\ DaysBeforeMonth(y, c) < doy
                 /\ doy <= DaysBeforeMonth(y, c) + DaysInMonth(y, c)
    IN Date(y, m, doy - DaysBeforeMonth(y, m))

\* a >= b on datetimes
DateGeq(a, b) == ToOrdinal(a) >= ToOrdinal(b)

\* What a call gives: a value returned (exc = "") or an exception raised.
Returns(v) == [exc |-> "", val |-> v]
Raises(e, v) == [exc |-> e, val |-> v]

\* date.replace(year=, month=, day=): ValueError when the result is no date.
Replace(d, y, m, dd) ==
    LET r == Date(y, m, dd) IN
    IF IsValidDate(r) THEN Returns(r) ELSE Raises("ValueError", d)

(***************************************************************************)
(* date_ago (src/helper_functions.py), for whole n                         *)
(***************************************************************************)
\* case 'month', `if n % 1 == 0` branch.
MonthsAgo(n, from_) ==
    LET n_from_jan == n - from_.month + 1
        n_years == (n_from_jan - 1) \div 12 + 1
        \* date = date.replace(year=date.year-n_years)
        dated == IF n_from_jan > 0
                 THEN Replace(from_, from_.year - n_years, from_.month, from_.day)
                 ELSE Returns(from_)
        m0 == (from_.month - n) % 12
        month == IF m0 = 0 THEN 12 ELSE m0
    IN  IF dated.exc # "" THEN dated
        ELSE LET date == dated.val
                 day_max == DaysInMonth(date.year, month)
                 \* `if from_.day > day_max: date.replace(day=day_max)`: the
                 \* date replace() builds is dropped, date keeps its day
                 clamped == date
             IN Replace(clamped, clamped.year, month, clamped.day)

date_ago(n, unit, from_) ==
    IF n < 0 THEN Raises("ValueError", from_)
    ELSE CASE unit = "day" -> Returns(FromOrdinal(ToOrdinal(from_) - n))
           [] unit = "week" -> Returns(FromOrdinal(ToOrdinal(from_) - 7 * n))
           [] unit = "month" -> MonthsAgo(n, from_)
           \* n_in_months = round(n * 12)
           [] unit = "year" -> MonthsAgo(12 * n, from_)
           [] OTHER -> Raises("ValueError", from_)

(***************************************************************************)
(* Strings: sequences of one-character strings                             *)
(***************************************************************************)
Digits == <<"0", "1", "2", "3", "4", "5", "6", "7", "8", "9">>

DigitChars == {Digits[k] : k \in 1..10}

DigitValue(c) == (CHOOSE k \in 1..10 : Digits[k] = c) - 1

\* str(n) for n >= 0
RECURSIVE Str(_)
Str(n) ==
    IF n < 10 THEN <<Digits[n + 1]>>
    ELSE Str(n \div 10) \o <<Digits[(n % 10) + 1]>>

RECURSIVE DigitsValue(_)
DigitsValue(s) ==
    IF s = <<>> THEN 0
    ELSE 10 * DigitsValue(SubSeq(s, 1, Len(s) - 1)) + DigitValue(s[Len(s)])

AllDigits(s) == s # <<>> /\ \A k \in 1..Len(s) : s[k] \in DigitChars

\* float(s) on the strings of the model (digits, "-", letters): a run of
\* digits with an optional sign is a number, anything else a ValueError.
Float(s) ==
    IF AllDigits(s) THEN Returns(DigitsValue(s))
    ELSE IF s # <<>> /\ s[1] = "-" /\ AllDigits(Tail(s))
         THEN Returns(0 - DigitsValue(Tail(s)))
         ELSE Raises("ValueError", 0)

\* s.startswith(c) for a one-character c
StartsWith(s, c) == s # <<>> /\ s[1] = c

(***************************************************************************)
(* get_up_to_date (src/inventories.py)                                     *)
(***************************************************************************)
\* full_unit
full_unit == [D |-> "day", W |-> "week", M |-> "month", Y |-> "year"]

\* A row of the datasets table as get_up_to_date reads it: harvested is
\* "True", "False" or "NA" (a row appended from a partial record),
\* frequency a string (isstr) or a missing value, modified a date.
get_up_to_date(ds, now_) ==
    IF ds.harvested = "NA" THEN Raises("TypeError", TRUE)
    ELSE IF ds.harvested = "True" THEN Returns(TRUE)
    ELSE LET frequency == ds.frequency.s IN
      IF ds.frequency.isstr /\ StartsWith(frequency, "P")
            /\ frequency # <<"P", "T", "1", "S">>
      THEN LET last == frequency[Len(frequency)] IN
           IF last \notin DOMAIN full_unit THEN Raises("KeyError", TRUE)
           ELSE LET unit == full_unit[last]
                    n == Float(SubSeq(frequency, 2, Len(frequency) - 1))
                IN IF n.exc # "" THEN Raises(n.exc, TRUE)
                   ELSE LET oldest_valid_update == date_ago(n.val, unit, now_) IN
                        IF oldest_valid_update.exc # ""
                        THEN Raises(oldest_valid_update.exc, TRUE)
                        ELSE Returns(DateGeq(ds.modified,
                                             oldest_valid_update.val))
      ELSE Returns(TRUE)

(***************************************************************************)
(* Initial state: inventory() has just been called on a fresh Inventory    *)
(***************************************************************************)
HarvestInit ==
    /\ dcKind \in {"requests", "driver"}
    /\ ids_arg \in IdLists
    /\ catalogue \in {[k \in 1..n |-> k] : n \in 0..MaxIds}
    \* only search_datasets reads the catalogue listing: with a list of ids
    \* to harvest, one listing stands for all
    /\ (ids_arg.given /\ ids_arg.ids # <<>>) => Len(catalogue) = MaxIds
    /\ mpc = "begin"
    /\ datasets_ids = <<>>
    /\ count = 0
    /\ list_id = <<>>
    /\ i = 0
    /\ nSearch = 0
    /\ nGet = 0
    /\ submitted = 0
    /\ pc = [t \in Tasks |-> "idle"]
    /\ dataset = [t \in Tasks |-> "none"]
    /\ ri = [t \in Tasks |-> 0]
    /\ res_ok = [t \in Tasks |-> <<>>]
    /\ idx = [t \in Tasks |-> 0]
    /\ driver_lock = Free
    /\ datasets_lock = Free
    /\ resources_lock = Free
    /\ datasets = <<>>
    /\ resources = <<>>
    /\ pbar_n = 0
    /\ pbar_total = 0
    /\ cmf_pc = "idle"
    /\ derived = <<>>

\* No harvest in progress: a fresh Inventory, inventory() not called.  PoolIdle
\* leaves open what the catalogue lists and where the main thread is.
PoolIdle ==
    /\ dcKind = "requests"
    /\ ids_arg = [given |-> FALSE, ids |-> <<>>]
    /\ datasets_ids = <<>>
    /\ count = 0
    /\ list_id = <<>>
    /\ i = 0
    /\ nSearch = 0
    /\ nGet = 0
    /\ submitted = 0
    /\ pc = [t \in Tasks |-> "idle"]
    /\ dataset = [t \in Tasks |-> "none"]
    /\ ri = [t \in Tasks |-> 0]
    /\ res_ok = [t \in Tasks |-> <<>>]
    /\ idx = [t \in Tasks |-> 0]
    /\ driver_lock = Free
    /\ datasets_lock = Free
    /\ resources_lock = Free
    /\ datasets = <<>>
    /\ resources = <<>>
    /\ pbar_n = 0
    /\ pbar_total = 0
    /\ cmf_pc = "idle"
    /\ derived = <<>>

HarvestIdle ==
    /\ PoolIdle
    /\ catalogue = <<>>
    /\ mpc = "idle"

\* No date_ago call and no complete_up_to_date pass in progress.
DateAgoIdle ==
    /\ da_call = [n |-> 0, unit |-> "day", from_ |-> Date(1, 1, 1)]
    /\ da_out = Raises("idle", Date(1, 1, 1))

UpToDateIdle ==
    /\ now = Date(1, 1, 1)
    /\ utd_table = <<>>
    /\ utd_col = <<>>
    /\ utd_pc = "idle"

\* No compliance rule being called on its own.
RuleIdle ==
    /\ cf_in = [rule |-> "none"]
    /\ cf_out = Raises("idle", FALSE)

\* search_datasets not called on its own.
SearchIdle == sd_stable = TRUE

\* No caller at the HTTP clients, the limiter as the decorator creates it.
RateIdle ==
    /\ rl_num_calls = 0
    /\ rl_age = 0
    /\ rl_admitted = 0
    /\ rl_pc = <<>>

OffIdle == SearchIdle /\ RateIdle

Init == HarvestInit /\ DateAgoIdle /\ UpToDateIdle /\ RuleIdle /\ OffIdle

(***************************************************************************)
(* inventory(): resolving the id list                                      *)
(***************************************************************************)
\* `not datasets_ids`: true of None and of the empty list.
NotIds(arg) == ~arg.given \/ arg.ids = <<>>

\* tqdm(total=len(datasets_ids)); the locks are created free.
StartPool(ids) ==
    /\ datasets_ids' = ids
    /\ pbar_total' = Len(ids)
    /\ mpc' = "submit"

Begin ==
    /\ mpc = "begin"
    /\ IF NotIds(ids_arg)
       THEN /\ mpc' = "search_count"
            /\ UNCHANGED <<datasets_ids, pbar_total>>
       ELSE StartPool(ids_arg.ids)
    /\ UNCHANGED <<offHarvest, inputVars, searchVars, taskVars, lockVars, tableVars,
                   submitted, pbar_n>>

\* count = request_ckan(url)['count']
SearchCount ==
    /\ mpc = "search_count"
    /\ count' = Len(catalogue)
    /\ list_id' = <<>>
    /\ i' = 0
    /\ nSearch' = nSearch + 1
    /\ mpc' = "search_page"
    /\ UNCHANGED <<offHarvest, inputVars, taskVars, lockVars, tableVars, datasets_ids,
                   submitted, pbar_n, pbar_total>>

Min(a, b) == IF a <= b THEN a ELSE b

\* The page package_search?rows=100&start=offset of a stable catalogue.
Page(offset) ==
    IF offset >= Len(catalogue) THEN <<>>
    ELSE SubSeq(catalogue, offset + 1, Min(offset + ROWS, Len(catalogue)))

\* One turn of `while len(list_id) < count`.
SearchPage ==
    /\ mpc = "search_page"
    /\ Len(list_id) < count
    /\ list_id' = list_id \o Page(i)
    /\ i' = i + ROWS
    /\ nSearch' = nSearch + 1
    /\ UNCHANGED <<offHarvest, inputVars, taskVars, lockVars, tableVars, mpc, datasets_ids,
                   count, submitted, pbar_n, pbar_total>>

\* The loop ends and search_datasets returns list_id.
SearchReturn ==
    /\ mpc = "search_page"
    /\ ~(Len(list_id) < count)
    /\ StartPool(list_id)
    /\ UNCHANGED <<offHarvest, inputVars, searchVars, taskVars, lockVars, tableVars,
                   submitted, pbar_n>>

(***************************************************************************)
(* inventory(): the worker pool.  ThreadPoolExecutor() runs up to          *)
(* min(32, cpus + 4) tasks at once, more than the tasks modelled here, so  *)
(* every submitted task has a thread of its own.                           *)
(***************************************************************************)
\* executor.submit(self._collect_dataset_with_resources, dc, id, ...)
Submit ==
    /\ mpc = "submit"
    /\ submitted < Len(datasets_ids)
    /\ submitted' = submitted + 1
    /\ pc' = [pc EXCEPT ![submitted + 1] = "start"]
    /\ UNCHANGED <<offHarvest, inputVars, searchVars, lockVars, tableVars, dataset, ri,
                   res_ok, idx, nGet, mpc, datasets_ids, pbar_n, pbar_total>>

Id(t) == datasets_ids[t]

\* `if driver_lock: driver_lock.acquire()`; driver_lock is a Lock for a
\* DriverDataCatalogue and None otherwise.
EnterFetch(t) ==
    /\ pc[t] = "start"
    /\ IF dcKind = "driver"
       THEN /\ CanAcquire(driver_lock)
            /\ driver_lock' = t
       ELSE UNCHANGED driver_lock
    /\ pc' = [pc EXCEPT ![t] = "get_dataset"]
    /\ UNCHANGED <<offHarvest, inputVars, searchVars, tableVars, dataset, ri, res_ok, idx,
                   nGet, datasets_lock, resources_lock, mpc, datasets_ids,
                   submitted, pbar_n, pbar_total>>

\* Where control goes when the try block of the task raises: the handler of
\* line 306 prints, and the finally clause updates the progress bar.
OnExceptionNoFinally == "done"

OnException == "finally"

\* dc.get_dataset(id) returns a payload; `if driver_lock:
\* driver_lock.release()` follows it.
GetDataset(t, payload) ==
    /\ pc[t] = "get_dataset"
    /\ nGet' = nGet + 1
    /\ dataset' = [dataset EXCEPT ![t] = payload]
    /\ driver_lock' = IF dcKind = "driver" THEN Free ELSE driver_lock
    /\ pc' = [pc EXCEPT ![t] = "add_dataset"]
    /\ UNCHANGED <<offHarvest, inputVars, searchVars, tableVars, ri, res_ok, idx,
                   datasets_lock, resources_lock, mpc, datasets_ids, submitted,
                   pbar_n, pbar_total>>

\* dc.get_dataset(id) raises (transport failure, success false, no JSON in
\* the page): control leaves the try block before driver_lock.release().
GetDatasetRaises(t) ==
    /\ pc[t] = "get_dataset"
    /\ nGet' = nGet + 1
    /\ pc' = [pc EXCEPT ![t] = OnException]
    /\ UNCHANGED <<offHarvest, inputVars, searchVars, tableVars, lockVars, dataset, ri,
                   res_ok, idx, mpc, datasets_ids, submitted, pbar_n,
                   pbar_total>>

\* add_dataset up to the read of len(datasets): the record is built (an
\* exception of lines 50-97 is caught and printed by line 103, and control
\* falls through), then lock.acquire() and len(datasets).
AddDataset(t) ==
    /\ pc[t] = "add_dataset"
    /\ CanAcquire(datasets_lock)
    /\ datasets_lock' = t
    /\ idx' = [idx EXCEPT ![t] = Len(datasets)]
    /\ pc' = [pc EXCEPT ![t] = "ds_write"]
    /\ UNCHANGED <<offHarvest, inputVars, searchVars, tableVars, dataset, ri, res_ok, nGet,
                   driver_lock, resources_lock, mpc, datasets_ids, submitted,
                   pbar_n, pbar_total>>

\* The position after resource r of task t: the next turn of
\* `for resource in dataset['resources']`, or the end of the try block.
AfterResource(t, r) ==
    IF r < NumResources(Id(t)) THEN "add_resource" ELSE "finally"

\* datasets.loc[idx] = record; lock.release(); then the resources loop.
DsWrite(t) ==
    /\ pc[t] = "ds_write"
    /\ datasets' = SetRow(datasets, idx[t], DatasetRecord(Id(t), dataset[t]))
    /\ datasets_lock' = Release(t)
    /\ ri' = [ri EXCEPT ![t] = 1]
    /\ pc' = [pc EXCEPT ![t] = AfterResource(t, 0)]
    /\ UNCHANGED <<offHarvest, inputVars, searchVars, resources, dataset, res_ok, idx, nGet,
                   driver_lock, resources_lock, mpc, datasets_ids, submitted,
                   pbar_n, pbar_total>>

\* An exception inside add_resource propagating to the caller.
AfterResourceRaisePropagates(t, r) == OnException

\* add_resource catches its exception and returns (line 165-167): the loop
\* of the caller goes on.
AfterResourceRaise(t, r) == AfterResource(t, r)

\* add_resource fails while building the record (a field that raises, the
\* liveness HEAD request raising): no row.
AddResourceRaises(t) ==
    /\ pc[t] = "add_resource"
    /\ res_ok' = [res_ok EXCEPT ![t] = Append(@, FALSE)]
    /\ ri' = [ri EXCEPT ![t] = @ + 1]
    /\ pc' = [pc EXCEPT ![t] = AfterResourceRaise(t, ri[t])]
    /\ UNCHANGED <<offHarvest, inputVars, searchVars, tableVars, lockVars, dataset, idx,
                   nGet, mpc, datasets_ids, submitted, pbar_n, pbar_total>>

\* add_resource builds the record (liveness check included), then
\* lock.acquire() and len(resources).
AddResource(t) ==
    /\ pc[t] = "add_resource"
    /\ CanAcquire(resources_lock)
    /\ resources_lock' = t
    /\ res_ok' = [res_ok EXCEPT ![t] = Append(@, TRUE)]
    /\ idx' = [idx EXCEPT ![t] = Len(resources)]
    /\ pc' = [pc EXCEPT ![t] = "res_write"]
    /\ UNCHANGED <<offHarvest, inputVars, searchVars, tableVars, dataset, ri, nGet,
                   driver_lock, datasets_lock, mpc, datasets_ids, submitted,
                   pbar_n, pbar_total>>

\* resources.loc[idx] = record; lock.release(); next resource.
ResWrite(t) ==
    /\ pc[t] = "res_write"
    /\ resources' = SetRow(resources, idx[t], ResourceRecord(Id(t), ri[t]))
    /\ resources_lock' = Release(t)
    /\ ri' = [ri EXCEPT ![t] = @ + 1]
    /\ pc' = [pc EXCEPT ![t] = AfterResource(t, ri[t])]
    /\ UNCHANGED <<offHarvest, inputVars, searchVars, datasets, dataset, res_ok, idx, nGet,
                   driver_lock, datasets_lock, mpc, datasets_ids, submitted,
                   pbar_n, pbar_total>>

\* finally: pbar.update(); the task ends.
PbarUpdate(t) ==
    /\ pc[t] = "finally"
    /\ pbar_n' = pbar_n + 1
    /\ pc' = [pc EXCEPT ![t] = "done"]
    /\ UNCHANGED <<offHarvest, inputVars, searchVars, tableVars, lockVars, dataset, ri,
                   res_ok, idx, nGet, mpc, datasets_ids, submitted, pbar_total>>

\* executor.shutdown(wait=True) returns once every task has ended; then
\* pbar.close() and the two sorts.
JoinAndSort ==
    /\ mpc = "submit"
    /\ submitted = Len(datasets_ids)
    /\ \A t \in 1..submitted : pc[t] = "done"
    /\ datasets' = SortValues(datasets, DatasetKeys(datasets))
    /\ resources' = SortValues(resources, ResourceKeys(resources))
    /\ mpc' = "returned"
    /\ UNCHANGED <<offHarvest, inputVars, searchVars, taskVars, lockVars, datasets_ids,
                   submitted, pbar_n, pbar_total>>

(***************************************************************************)
(* complete_missing_fields, called by main once inventory() has returned   *)
(* (src/__main__.py, lines 102-112).  Each pass is datasets.apply(rule,    *)
(* axis=1) followed by the assignment of the column; an exception of the   *)
(* rule on any row leaves the pass, and main, before the assignment.       *)
(***************************************************************************)
\* A row appended from a record with no keys at all: metadata_modified is
\* missing, infer_modified raises on it.
ModifiedMustRaise == \E k \in 1..Len(datasets) : datasets[k].id = NA

\* A row appended from a partial record may lack metadata_modified.
ModifiedMayRaise == \E k \in 1..Len(datasets) : ~datasets[k].complete

\* get_up_to_date raises on some rows (a partial row with harvested
\* missing, a frequency such as 'PT1H', a date_ago that raises).
UpToDateMayRaise == datasets # <<>>

AfterInventory == mpc = "returned" /\ cmf_pc \in {"idle", "running"}

\* What a pass leaves alone.
offPass == <<offHarvestBase, inputVars, searchVars, taskVars, lockVars, tableVars, mpc,
             datasets_ids, submitted, pbar_n, pbar_total>>

\* One pass of complete_missing_fields: it comes after the columns `after`,
\* and writes `column` unless its rule raises.
Pass(after, column, raises, last) ==
    /\ AfterInventory
    /\ derived = after
    /\ IF raises
       THEN cmf_pc' = "raised" /\ UNCHANGED derived
       ELSE /\ derived' = Append(derived, column)
            /\ cmf_pc' = IF last THEN "ready" ELSE "running"
    /\ UNCHANGED offPass

complete_modified(raises) ==
    /\ ModifiedMustRaise => raises
    /\ raises => ModifiedMayRaise
    /\ Pass(<<>>, "modified", raises, FALSE)

complete_up_to_date(raises) ==
    /\ raises => UpToDateMayRaise
    /\ Pass(<<"modified">>, "up_to_date", raises, FALSE)

complete_official_lang ==
    Pass(<<"modified", "up_to_date">>, "official_lang", FALSE, FALSE)

complete_open_formats ==
    Pass(<<"modified", "up_to_date", "official_lang">>, "open_formats", FALSE, FALSE)

complete_spec ==
    Pass(<<"modified", "up_to_date", "official_lang", "open_formats">>, "spec",
         FALSE, TRUE)

Next ==
    \/ Begin
    \/ SearchCount
    \/ SearchPage
    \/ SearchReturn
    \/ Submit
    \/ JoinAndSort
    \/ \E t \in Tasks :
         \/ EnterFetch(t)
         \/ \E payload \in Payloads : GetDataset(t, payload)
         \/ GetDatasetRaises(t)
         \/ AddDataset(t)
         \/ DsWrite(t)
         \/ AddResourceRaises(t)
         \/ AddResource(t)
         \/ ResWrite(t)
         \/ PbarUpdate(t)
    \/ \E raises \in BOOLEAN : complete_modified(raises)
    \/ \E raises \in BOOLEAN : complete_up_to_date(raises)
    \/ complete_official_lang
    \/ complete_open_formats
    \/ complete_spec

Spec == Init /\ [][Next]_vars

(***************************************************************************)
(* Properties of the harvest                                               *)
(***************************************************************************)
Returned == mpc = "returned"

Submitted == 1..submitted

Distinct(ids) == \A j, k \in 1..Len(ids) : ids[j] = ids[k] => j = k

\* The task's get_dataset raised: it left the try block with no payload.
FetchRaised(t) == pc[t] \in {"finally", "done"} /\ dataset[t] = "none"

\* The task has written its dataset row.
WroteDataset(t) ==
    dataset[t] # "none" /\ pc[t] \in {"add_resource", "res_write", "finally", "done"}

\* The task has written the row of its resource r.
WroteResource(t, r) ==
    /\ r <= Len(res_ok[t])
    /\ res_ok[t][r]
    /\ r < ri[t]

DatasetRows(id) == {k \in 1..Len(datasets) : datasets[k].id = id}

ResourceRows(id, r) ==
    {k \in 1..Len(resources) : resources[k] = ResourceRecord(id, r)}

\* C1: when the fetch of one id raises, that id gets no dataset row, every
\* sibling task still runs to completion (the harvest never comes to rest
\* before inventory() has returned) and each sibling whose payload is sound
\* has its row in the final table; for the direct and the browser-backed
\* client, under every interleaving.
C1_FetchFailureIsolated ==
    (Distinct(datasets_ids) /\ \E t \in Submitted : FetchRaised(t)) =>
        /\ \A t \in Submitted : FetchRaised(t) => DatasetRows(Id(t)) = {}
        /\ Returned \/ ENABLED Next
        /\ Returned =>
              \A t \in Submitted : dataset[t] = "ok" => DatasetRows(Id(t)) # {}

\* C2: inventory() called with an explicit empty id list makes no
\* search_datasets request and no get_dataset request, and leaves both
\* tables empty.
C2_EmptyListNoCalls ==
    (ids_arg.given /\ ids_arg.ids = <<>>) =>
        /\ nSearch = 0
        /\ nGet = 0
        /\ datasets = <<>>
        /\ resources = <<>>

\* C3: no append to the datasets table is lost, overwritten or duplicated:
\* the table holds one row per task that has done its append, a sound payload
\* has exactly one row under its id, and N distinct ids that all fetch and
\* normalise leave exactly N rows when the harvest returns.
C3_NoLostAppend ==
    /\ Len(datasets) = Cardinality({t \in Submitted : WroteDataset(t)})
    /\ Distinct(datasets_ids) =>
          \A t \in Submitted :
              (WroteDataset(t) /\ dataset[t] = "ok") =>
                  Cardinality(DatasetRows(Id(t))) = 1
    /\ (Returned /\ Distinct(datasets_ids)
          /\ \A t \in Submitted : dataset[t] = "ok") =>
          /\ Len(datasets) = Len(datasets_ids)
          /\ \A t \in Submitted : Cardinality(DatasetRows(Id(t))) = 1

\* Two tasks have appended concurrently and the harvest has returned both rows.
C3_Witness ==
    /\ Returned
    /\ datasets_ids = <<1, 2>>
    /\ \A t \in 1..2 : dataset[t] = "ok"
    /\ Len(datasets) = 2

\* C4: with the browser-backed client at most one task is inside the remote
\* call, and the browser-session lock is held by a task only while that task
\* is inside the call.
C4_DriverLockScopedToCall ==
    dcKind = "driver" =>
        /\ Cardinality({t \in Tasks : pc[t] = "get_dataset"}) <= 1
        /\ driver_lock # Free => pc[driver_lock] = "get_dataset"

\* C5: the progress counter counts the ended tasks: a task ends by the step
\* that adds one to the counter, whether it fetched or failed, an ended task
\* stays ended, the counter never decreases, and when inventory() returns the
\* counter equals the number of ids submitted.
C5_ProgressOncePerTask ==
    /\ [](/\ pbar_n = Cardinality({t \in Tasks : pc[t] = "done"})
          /\ Returned => (pbar_n = Len(datasets_ids) /\ pbar_n = pbar_total))
    /\ [][/\ pbar_n' >= pbar_n
          /\ pbar_n' <= pbar_n + 1
          /\ \A t \in Tasks :
                /\ pc[t] = "done" => pc'[t] = "done"
                /\ (pc[t] # "done" /\ pc'[t] = "done") => pbar_n' = pbar_n + 1]_vars

\* A harvest has returned in which one task failed to fetch and another
\* wrote its row, and both were counted.
C5_Witness ==
    /\ Returned
    /\ \E t \in Submitted : FetchRaised(t)
    /\ \E t \in Submitted : WroteDataset(t)
    /\ pbar_n = 2

\* C6: a payload that add_dataset fails to normalise leaves no row in the
\* datasets table and no row of its resources in the resources table.
C6_FailedDatasetDropped ==
    /\ \A k \in 1..Len(datasets) : datasets[k].complete
    /\ Distinct(datasets_ids) =>
          \A t \in Submitted :
              dataset[t] \in {"fail_at_id", "fail_after_id"} =>
                  \A k \in 1..Len(resources) :
                      resources[k].dataset_id # Id(t)

\* C7: a resource that add_resource fails to normalise gets no row; the
\* parent dataset keeps its row and every resource of the dataset that
\* normalises gets its row: the rows of resource r of dataset id are as many
\* as the tasks that normalised and wrote it, the row of the parent is in the
\* datasets table, and a task that fetched has tried each of its resources
\* by the time it ends.
C7_FailedResourceIsolated ==
    /\ \A id \in 1..MaxIds :
          \A r \in 1..NumResources(id) :
              Cardinality(ResourceRows(id, r)) =
                  Cardinality({t \in Submitted :
                                  Id(t) = id /\ WroteResource(t, r)})
    /\ \A t \in Submitted :
          /\ WroteDataset(t) =>
                \E k \in 1..Len(datasets) :
                    datasets[k] = DatasetRecord(Id(t), dataset[t])
          /\ (pc[t] = "done" /\ dataset[t] # "none") =>
                Len(res_ok[t]) = NumResources(Id(t))

\* Dataset 1 has been harvested with its first resource failing and its
\* second resource written.
C7_Witness ==
    \E t \in Submitted :
        /\ pc[t] = "done"
        /\ Id(t) = 1
        /\ res_ok[t] = <<FALSE, TRUE>>
        /\ ResourceRows(1, 1) = {}
        /\ ResourceRows(1, 2) # {}
        /\ DatasetRows(1) # {}

(***************************************************************************)
(* Calls of date_ago                                                       *)
(***************************************************************************)
Years == {2023, 2024}

Dates ==
    {d \in [year : Years, month : 1..12, day : {1, 15, 28, 29, 30, 31}] :
        IsValidDate(d)}

Units == {"day", "week", "month", "year", "hour"}

DateAgoInit ==
    /\ HarvestIdle
    /\ UpToDateIdle
    /\ RuleIdle
    /\ OffIdle
    /\ da_call \in [n : 0..MaxN, unit : Units, from_ : Dates]
    /\ da_out = Raises("pending", da_call.from_)

DateAgoCall ==
    /\ da_out.exc = "pending"
    /\ da_out' = date_ago(da_call.n, da_call.unit, da_call.from_)
    /\ UNCHANGED <<hvars, utdvars, cfvars, sdvars, rlvars, da_call>>

DateAgoNext == DateAgoCall

DateAgoSpec == DateAgoInit /\ [][DateAgoNext]_vars

(***************************************************************************)
(* complete_up_to_date: get_up_to_date applied to the rows in index order  *)
(***************************************************************************)
Nows ==
    {Date(2023, 12, 15), Date(2024, 1, 31), Date(2024, 2, 29),
     Date(2024, 3, 1), Date(2024, 3, 31), Date(2024, 5, 31)}

\* Days between the modified date of a row and now.
Ages == {0, 1, 2, 6, 7, 8, 28, 29, 30, 31, 32, 40, 59, 60, 61, 62, 365, 366, 367}

Counts ==
    {Str(n) : n \in 0..MaxCount}
    \cup {<<>>, <<"x">>, <<"T", "1">>, <<"-", "1">>, <<"1", "2">>}

Frequencies ==
    {[isstr |-> FALSE, s |-> <<>>]}
    \cup {[isstr |-> TRUE, s |-> p \o c \o u] :
            p \in {<<>>, <<"P">>, <<"x">>}, c \in Counts,
            u \in {<<>>, <<"D">>, <<"W">>, <<"M">>, <<"Y">>, <<"H">>, <<"S">>,
                   <<"P">>}}

Rows(now_) ==
    [harvested : {"True", "False", "NA"}, frequency : Frequencies,
     modified : {FromOrdinal(ToOrdinal(now_) - a) : a \in Ages}]

\* Rows that compute without raising, to stand before another row.
PlainRows(now_) ==
    {[harvested |-> "False", frequency |-> [isstr |-> FALSE, s |-> <<>>],
      modified |-> now_],
     [harvested |-> "False", frequency |-> [isstr |-> TRUE, s |-> <<"P", "1", "D">>],
      modified |-> FromOrdinal(ToOrdinal(now_) - 2)]}

UpToDateInit ==
    /\ HarvestIdle
    /\ DateAgoIdle
    /\ RuleIdle
    /\ OffIdle
    /\ now \in Nows
    /\ utd_table \in {<<r>> : r \in Rows(now)}
                     \cup {<<q, r>> : q \in PlainRows(now), r \in Rows(now)}
    /\ utd_col = <<>>
    /\ utd_pc = "apply"

\* One row of datasets.apply(lambda ds: get_up_to_date(ds, now), axis=1);
\* an exception of the lambda ends the pass, the column is not assigned.
ApplyRow ==
    /\ utd_pc = "apply"
    /\ Len(utd_col) < Len(utd_table)
    /\ LET r == get_up_to_date(utd_table[Len(utd_col) + 1], now) IN
       IF r.exc # ""
       THEN utd_pc' = r.exc /\ UNCHANGED utd_col
       ELSE utd_col' = Append(utd_col, r.val) /\ UNCHANGED utd_pc
    /\ UNCHANGED <<hvars, davars, cfvars, sdvars, rlvars, now, utd_table>>

\* self.datasets.up_to_date = <the values>
AssignColumn ==
    /\ utd_pc = "apply"
    /\ Len(utd_col) = Len(utd_table)
    /\ utd_pc' = "assigned"
    /\ UNCHANGED <<hvars, davars, cfvars, sdvars, rlvars, now, utd_table, utd_col>>

UpToDateNext == ApplyRow \/ AssignColumn

UpToDateSpec == UpToDateInit /\ [][UpToDateNext]_vars

(***************************************************************************)
(* Properties of date_ago and get_up_to_date                               *)
(***************************************************************************)
\* The date n calendar months before d: (year, month) stepped back n times,
\* the day clamped to the length of the month reached.
MonthsBefore(n, d) ==
    LET total == d.year * 12 + (d.month - 1) - n
        y == total \div 12
        m == (total % 12) + 1
    IN Date(y, m, Min(d.day, DaysInMonth(y, m)))

\* now minus n units, by the calendar.
UnitsBefore(n, unitchar, d) ==
    CASE unitchar = "D" -> FromOrdinal(ToOrdinal(d) - n)
      [] unitchar = "W" -> FromOrdinal(ToOrdinal(d) - 7 * n)
      [] unitchar = "M" -> MonthsBefore(n, d)
      [] unitchar = "Y" -> MonthsBefore(12 * n, d)

\* A valid duration token P<n><D|W|M|Y>, n a whole number.
ValidToken(f) ==
    /\ f.isstr
    /\ Len(f.s) >= 3
    /\ f.s[1] = "P"
    /\ f.s[Len(f.s)] \in {"D", "W", "M", "Y"}
    /\ AllDigits(SubSeq(f.s, 2, Len(f.s) - 1))

TokenCount(f) == DigitsValue(SubSeq(f.s, 2, Len(f.s) - 1))

\* Row k of the pass did not raise.
RowReturned(k) == k <= Len(utd_col) \/ utd_pc \in {"apply", "assigned"}

\* C8: for a non-harvested row whose frequency is no valid duration token,
\* get_up_to_date returns true and does not raise, so the pass of
\* complete_up_to_date is not ended by such a row.
C8_MalformedFrequencyIsCurrent ==
    \A k \in 1..Len(utd_table) :
        (utd_table[k].harvested = "False" /\ ~ValidToken(utd_table[k].frequency)) =>
            /\ k = Len(utd_col) + 1 => RowReturned(k)
            /\ k <= Len(utd_col) => utd_col[k] = TRUE

\* C9: date_ago(n, 'month', d) for whole n >= 0 returns, without raising,
\* the date n calendar months before d with the day clamped to the length of
\* the target month, and date_ago(n, 'year', d) equals
\* date_ago(12 * n, 'month', d).
C9_MonthsAgoClamped ==
    da_out.exc # "pending" =>
        /\ da_call.unit = "month" =>
              da_out = Returns(MonthsBefore(da_call.n, da_call.from_))
        /\ da_call.unit = "year" =>
              da_out = date_ago(12 * da_call.n, "month", da_call.from_)

\* C10: for a row with a valid duration token P<n><unit>, get_up_to_date
\* returns false iff modified is strictly earlier than now minus n units;
\* a harvested row is current for every frequency and modified date.
C10_CurrentIffNotOlder ==
    \A k \in 1..Len(utd_table) :
        LET ds == utd_table[k] IN
        /\ ds.harvested = "True" =>
              /\ k = Len(utd_col) + 1 => RowReturned(k)
              /\ k <= Len(utd_col) => utd_col[k] = TRUE
        /\ (ds.harvested = "False" /\ ValidToken(ds.frequency)) =>
              /\ k = Len(utd_col) + 1 => RowReturned(k)
              /\ k <= Len(utd_col) =>
                    utd_col[k] =
                        DateGeq(ds.modified,
                                UnitsBefore(TokenCount(ds.frequency),
                                            ds.frequency.s[Len(ds.frequency.s)],
                                            now))

(***************************************************************************)
(* Regular expressions over titles (sequences of one-character strings):   *)
(* a pattern is a sequence of character classes                            *)
(***************************************************************************)
\* Longest title built letter by letter.
MaxTitle == 4

TitleChars == {"d", "D", "_", "-", "x"}

\* The characters of the titles of the model.
Chars ==
    TitleChars \cup {"a", "t", "i", "c", "o", "n", "r", "y", "s", "p", "e", "f",
                     "S", " "}

\* str.lower() of one character.
Lower(c) == IF c = "D" THEN "d" ELSE IF c = "S" THEN "s" ELSE c

\* A literal of a pattern: each character stands for itself.
Lit(w) == [k \in 1..Len(w) |-> {w[k]}]

\* re.IGNORECASE: the pattern matches at position k of s (1-based).
MatchAt(s, k, pat) ==
    /\ k >= 1
    /\ k + Len(pat) - 1 <= Len(s)
    /\ \A j \in 1..Len(pat) : Lower(s[k + j - 1]) \in pat[j]

\* re.search: the pattern matches somewhere in s.
Search(s, pat) == \E k \in 1..Len(s) : MatchAt(s, k, pat)

DataDictionary ==
    <<"d", "a", "t", "a", " ", "d", "i", "c", "t", "i", "o", "n", "a", "r", "y">>

Specification ==
    <<"s", "p", "e", "c", "i", "f", "i", "c", "a", "t", "i", "o", "n">>

\* The pattern of get_spec,
\*   (data dictionary|specification|^dd[_\-]|[_\-]dd.)
\* searched with case=False: the last alternative asks for one more
\* character after the "dd".
SpecPattern(title) ==
    \/ Search(title, Lit(DataDictionary))
    \/ Search(title, Lit(Specification))
    \/ MatchAt(title, 1, <<{"d"}, {"d"}, {"_", "-"}>>)
    \/ Search(title, <<{"_", "-"}, {"d"}, {"d"}, Chars>>)

\* The filter of the rule with the comparison left out.
OfAnyDataset(ds, all_resources) == all_resources

\* all_resources[all_resources.dataset_id == ds.id]
OfDataset(ds, all_resources) ==
    SelectSeq(all_resources, LAMBDA r : r.dataset_id = ds.id)

(***************************************************************************)
(* get_spec (src/inventories.py)                                           *)
(***************************************************************************)
get_spec(ds, all_resources) ==
    LET res == OfDataset(ds, all_resources) IN
    IF \E k \in 1..Len(res) : res[k].resource_type = "dataset"
    THEN \E k \in 1..Len(res) : SpecPattern(res[k].title_en)
    ELSE TRUE

\* Titles: every string of at most MaxTitle letters of TitleChars, and some
\* longer ones.
Titles ==
    UNION {[1..n -> TitleChars] : n \in 0..MaxTitle}
    \cup {DataDictionary, Specification,
          <<"D">> \o Tail(DataDictionary),
          <<"x">> \o Specification \o <<"s">>,
          <<"d", "a", "t", "a", "_", "d", "i", "c", "t", "i", "o", "n", "a", "r", "y">>,
          <<"x", "_", "d", "d", "x">>, <<"x", "x", "-", "D", "D">>,
          <<"x", "d", "d", "_", "x">>}

SpecRows == [dataset_id : {1, 2}, resource_type : {"dataset", "guide"},
             title_en : Titles]

\* Rows to stand beside the row under test.
SpecOtherRows ==
    {[dataset_id |-> 1, resource_type |-> "dataset", title_en |-> <<"x", "x">>],
     [dataset_id |-> 1, resource_type |-> "guide", title_en |-> DataDictionary],
     [dataset_id |-> 2, resource_type |-> "dataset", title_en |-> <<"x">>],
     [dataset_id |-> 2, resource_type |-> "guide", title_en |-> <<"d", "d", "_">>]}

GetSpecInit ==
    /\ HarvestIdle
    /\ DateAgoIdle
    /\ UpToDateIdle
    /\ OffIdle
    /\ cf_in \in [rule : {"get_spec"}, ds : {[id |-> 1]},
                  resources : {<<>>} \cup {<<r>> : r \in SpecRows}
                              \cup {<<r, o>> : r \in SpecRows, o \in SpecOtherRows}
                              \cup {<<o, r>> : r \in SpecRows, o \in SpecOtherRows}]
    /\ cf_out = Raises("pending", FALSE)

GetSpecCall ==
    /\ cf_in.rule = "get_spec"
    /\ cf_out.exc = "pending"
    /\ cf_out' = Returns(get_spec(cf_in.ds, cf_in.resources))
    /\ UNCHANGED <<hvars, davars, utdvars, sdvars, rlvars, cf_in>>

GetSpecNext == GetSpecCall

GetSpecSpec == GetSpecInit /\ [][GetSpecNext]_vars

(***************************************************************************)
(* Properties of get_spec                                                  *)
(***************************************************************************)
LowerTitle(title) == [k \in 1..Len(title) |-> Lower(title[k])]

Contains(s, w) ==
    \E k \in 1..(Len(s) - Len(w) + 1) : SubSeq(s, k, k + Len(w) - 1) = w

StartsWithWord(s, w) == Len(s) >= Len(w) /\ SubSeq(s, 1, Len(w)) = w

EndsWithWord(s, w) ==
    Len(s) >= Len(w) /\ SubSeq(s, Len(s) - Len(w) + 1, Len(s)) = w

\* A title that names a data dictionary or a specification.
NamesSpec(title) ==
    LET t == LowerTitle(title) IN
    \/ Contains(t, DataDictionary)
    \/ Contains(t, Specification)
    \/ StartsWithWord(t, <<"d", "d", "_">>) \/ StartsWithWord(t, <<"d", "d", "-">>)
    \/ EndsWithWord(t, <<"_", "d", "d">>) \/ EndsWithWord(t, <<"-", "d", "d">>)

OwnRows(ds, table) == {k \in 1..Len(table) : table[k].dataset_id = ds.id}

\* C11: get_spec returns true when the dataset has no resource of type
\* 'dataset'; when it has one, it returns true iff one of the titles of the
\* dataset's resources, case ignored, contains 'data dictionary' or
\* 'specification', starts with 'dd_' or 'dd-', or ends with '_dd' or '-dd'.
C11_SpecRule ==
    (cf_in.rule = "get_spec" /\ cf_out.exc = "") =>
        LET own == OwnRows(cf_in.ds, cf_in.resources) IN
        cf_out.val =
            ((\E k \in own : cf_in.resources[k].resource_type = "dataset")
                => \E k \in own : NamesSpec(cf_in.resources[k].title_en))

(***************************************************************************)
(* get_open_formats (src/inventories.py)                                   *)
(***************************************************************************)
\* Most rows of the resources table handed to a rule called on its own.
MaxRows == 3

\* The static format table: one row per format, with its category
\* (format_type) and its open flag.
FORMATS ==
    {[format |-> "CSV", format_type |-> "tabular", open |-> "True"],
     [format |-> "XLS", format_type |-> "tabular", open |-> "False"],
     [format |-> "TXT", format_type |-> "document", open |-> "True"],
     [format |-> "PDF", format_type |-> "document", open |-> "False"]}

\* resources.merge(FORMATS, how='left', on='format'): each row joined with
\* the rows of FORMATS of the same format, and kept with missing
\* format_type and open when there is none.
MergeLeft(res) ==
    {[row |-> k, format_type |-> f.format_type, open |-> f.open] :
        <<k, f>> \in {p \in (1..Len(res)) \X FORMATS : res[p[1]].format = p[2].format}}
    \cup {[row |-> k, format_type |-> "NA", open |-> "NA"] :
            k \in {j \in 1..Len(res) : \A f \in FORMATS : f.format # res[j].format}}

\* groupby('format_type'): the groups, rows of missing key dropped.
FormatGroups(merged) == {m.format_type : m \in merged} \ {"NA"}

\* .open.unique() of one group
OpenValues(merged, g) == {m.open : m \in {x \in merged : x.format_type = g}}

get_open_formats(ds, all_resources) ==
    LET merged == MergeLeft(OfDataset(ds, all_resources)) IN
    \A g \in FormatGroups(merged) : "True" \in OpenValues(merged, g)

FormatRows == [dataset_id : {1, 2}, format : {"CSV", "XLS", "TXT", "PDF", "ZZZ"}]

OpenFormatsInit ==
    /\ HarvestIdle
    /\ DateAgoIdle
    /\ UpToDateIdle
    /\ OffIdle
    /\ cf_in \in [rule : {"get_open_formats"}, ds : {[id |-> 1]},
                  resources : UNION {[1..n -> FormatRows] : n \in 0..MaxRows}]
    /\ cf_out = Raises("pending", FALSE)

OpenFormatsCall ==
    /\ cf_in.rule = "get_open_formats"
    /\ cf_out.exc = "pending"
    /\ cf_out' = Returns(get_open_formats(cf_in.ds, cf_in.resources))
    /\ UNCHANGED <<hvars, davars, utdvars, sdvars, rlvars, cf_in>>

OpenFormatsNext == OpenFormatsCall

OpenFormatsSpec == OpenFormatsInit /\ [][OpenFormatsNext]_vars

(***************************************************************************)
(* Properties of get_open_formats                                          *)
(***************************************************************************)
\* The resource maps to category c in the format table.
InCategory(r, c) ==
    \E f \in FORMATS : f.format = r.format /\ f.format_type = c

\* The resource is of category c and flagged open.
OpenInCategory(r, c) ==
    \E f \in FORMATS : f.format = r.format /\ f.format_type = c /\ f.open = "True"

CategoriesOfModel == {f.format_type : f \in FORMATS}

\* C12: get_open_formats returns true iff every format category that one of
\* the dataset's own resources maps to has one of the dataset's own
\* resources flagged open; rows of other datasets play no part, and a
\* dataset with no resource is compliant.
C12_OpenFormatsRule ==
    (cf_in.rule = "get_open_formats" /\ cf_out.exc = "") =>
        LET t == cf_in.resources
            own == OwnRows(cf_in.ds, t) IN
        /\ cf_out.val =
            (\A c \in CategoriesOfModel :
                (\E k \in own : InCategory(t[k], c))
                    => \E k \in own : OpenInCategory(t[k], c))
        /\ own = {} => cf_out.val

\* The dataset has a closed tabular resource of its own and no open one,
\* beside an open tabular resource of another dataset: not compliant.
C12_Witness ==
    /\ cf_in.rule = "get_open_formats"
    /\ cf_out.exc = ""
    /\ ~cf_out.val
    /\ \E j, k \in 1..Len(cf_in.resources) :
        /\ cf_in.resources[j] = [dataset_id |-> 1, format |-> "XLS"]
        /\ cf_in.resources[k] = [dataset_id |-> 2, format |-> "CSV"]

(***************************************************************************)
(* infer_modified (src/inventories.py).  A cell of a string column is a    *)
(* string (s) or a missing value (isna); timestamps are ISO strings        *)
(***************************************************************************)
StrCell(s) == [isna |-> FALSE, s |-> s]

NACell == [isna |-> TRUE, s |-> <<>>]

\* The value of dt.datetime.now() handed back by the fallback.
NowValue == StrCell(<<"now">>)

\* ord() of the characters of a timestamp.
Ord(c) == IF c = "-" THEN 45 ELSE 48 + DigitValue(c)

\* a <= b on str: the first differing character decides, a prefix is less.
RECURSIVE StrLeq(_, _)
StrLeq(a, b) ==
    IF a = <<>> THEN TRUE
    ELSE IF b = <<>> THEN FALSE
    ELSE IF a[1] = b[1] THEN StrLeq(Tail(a), Tail(b))
    ELSE Ord(a[1]) < Ord(b[1])

\* max() of a non-empty list of str
MaxStr(list) ==
    list[CHOOSE k \in 1..Len(list) : \A j \in 1..Len(list) : StrLeq(list[j], list[k])]

\* ds_resources[col].dropna().tolist()
RECURSIVE DropNA(_)
DropNA(cells) ==
    IF cells = <<>> THEN <<>>
    ELSE IF cells[1].isna THEN DropNA(Tail(cells))
    ELSE <<cells[1].s>> \o DropNA(Tail(cells))

date_columns == <<"last_modified", "metadata_modified", "created">>

\* The first column of date_columns the table has, 0 when it has none.
FirstDateColumn(columns) ==
    IF \E k \in 1..3 : date_columns[k] \in columns
    THEN CHOOSE k \in 1..3 :
            /\ date_columns[k] \in columns
            /\ \A j \in 1..(k - 1) : date_columns[j] \notin columns
    ELSE 0

\* The loop over date_columns: the values of the first column present.
ResourceDates(res, columns) ==
    LET c == FirstDateColumn(columns) IN
    IF c = 0 THEN <<>>
    ELSE DropNA([k \in 1..Len(res) |-> res[k][date_columns[c]]])

\* resources is a table: its columns and its rows.
infer_modified(ds, resources_) ==
    IF ds.metadata_modified.isna
    THEN Raises("TypeError", NACell)          \* bool(<NA>)
    ELSE
        LET own == IF ds.metadata_modified.s # <<>>
                   THEN <<ds.metadata_modified.s>> ELSE <<>>
            modified_dates ==
                own \o ResourceDates(OfDataset(ds, resources_.rows),
                                     resources_.columns)
        IN  IF modified_dates # <<>>
            THEN Returns(StrCell(MaxStr(modified_dates)))
            ELSE Returns(NowValue)

\* Timestamps as the catalogue writes them: YYYY-MM-DD, zero-padded.
Pad2(n) == IF n < 10 THEN <<"0">> \o Str(n) ELSE Str(n)

Iso(d) == Str(d.year) \o <<"-">> \o Pad2(d.month) \o <<"-">> \o Pad2(d.day)

\* What add_resource can leave in a date cell: a timestamp, the empty
\* default, or a missing value.
StampCells(dates) == {NACell, StrCell(<<>>)} \cup {StrCell(Iso(d)) : d \in dates}

ModifiedRows ==
    [dataset_id : {1, 2},
     last_modified : StampCells({Date(2024, 3, 1)}),
     metadata_modified : StampCells({Date(2024, 1, 15), Date(2024, 2, 1)}),
     created : StampCells({Date(2023, 12, 31), Date(2024, 10, 9)})]

ModifiedOtherRows ==
    {[dataset_id |-> 1, last_modified |-> NACell,
      metadata_modified |-> StrCell(Iso(Date(2024, 1, 20))),
      created |-> StrCell(Iso(Date(2023, 11, 30)))],
     [dataset_id |-> 2, last_modified |-> StrCell(Iso(Date(2025, 1, 1))),
      metadata_modified |-> StrCell(Iso(Date(2025, 1, 1))),
      created |-> StrCell(Iso(Date(2025, 1, 1)))]}

\* RESOURCES_COLS has metadata_modified and created; other tables may
\* carry other columns.
ColumnSets ==
    {{"metadata_modified", "created"}, {"last_modified", "metadata_modified", "created"},
     {"created"}, {}}

ModifiedDatasets ==
    [id : {1},
     metadata_modified : {NACell, StrCell(Iso(Date(2024, 1, 20))),
                          StrCell(Iso(Date(2023, 9, 30)))}]

InferModifiedInit ==
    /\ HarvestIdle
    /\ DateAgoIdle
    /\ UpToDateIdle
    /\ OffIdle
    /\ cf_in \in [rule : {"infer_modified"}, ds : ModifiedDatasets,
                  resources :
                    [columns : ColumnSets,
                     rows : {<<>>} \cup {<<r>> : r \in ModifiedRows}
                            \cup {<<r, o>> : r \in ModifiedRows, o \in ModifiedOtherRows}
                            \cup {<<o, r>> : r \in ModifiedRows, o \in ModifiedOtherRows}]]
    /\ cf_out = Raises("pending", FALSE)

InferModifiedCall ==
    /\ cf_in.rule = "infer_modified"
    /\ cf_out.exc = "pending"
    /\ cf_out' = infer_modified(cf_in.ds, cf_in.resources)
    /\ UNCHANGED <<hvars, davars, utdvars, sdvars, rlvars, cf_in>>

InferModifiedNext == InferModifiedCall

InferModifiedSpec == InferModifiedInit /\ [][InferModifiedNext]_vars

(***************************************************************************)
(* Properties of infer_modified                                            *)
(***************************************************************************)
\* The calendar day of a timestamp YYYY-MM-DD, as a day number.
DayOf(stamp) ==
    ToOrdinal(Date(DigitsValue(SubSeq(stamp, 1, 4)),
                   DigitsValue(SubSeq(stamp, 6, 7)),
                   DigitsValue(SubSeq(stamp, 9, 10))))

IsDate(cell) == ~cell.isna /\ cell.s # <<>>

\* The timestamps the dataset's own resources contribute: those of the first
\* of last_modified, metadata_modified, created that the table has.
Contributed(ds, table) ==
    LET col == IF "last_modified" \in table.columns THEN "last_modified"
               ELSE IF "metadata_modified" \in table.columns THEN "metadata_modified"
               ELSE IF "created" \in table.columns THEN "created"
               ELSE "none"
    IN  IF col = "none" THEN {}
        ELSE {table.rows[k][col].s :
                k \in {j \in OwnRows(ds, table.rows) : IsDate(table.rows[j][col])}}

\* C13: infer_modified returns the latest of the dataset's own
\* metadata_modified and the timestamps of its own resources, taken from the
\* first present column only; the result is never earlier than the
\* dataset's own metadata_modified, and is that value when no resource
\* contributes a date.
C13_LatestModification ==
    (cf_in.rule = "infer_modified" /\ cf_out.exc # "pending") =>
        LET ds == cf_in.ds
            fromRes == Contributed(ds, cf_in.resources)
            cands == fromRes \cup (IF IsDate(ds.metadata_modified)
                                   THEN {ds.metadata_modified.s} ELSE {})
        IN  /\ cf_out.exc = ""
            /\ cands # {} =>
                /\ cf_out.val.s \in cands
                /\ \A c \in cands : DayOf(c) <= DayOf(cf_out.val.s)
            /\ (fromRes = {} /\ IsDate(ds.metadata_modified))
                    => cf_out.val = ds.metadata_modified

(***************************************************************************)
(* search_datasets called on its own (src/__main__.py, line 98), against a *)
(* catalogue whose responses need not agree with one another               *)
(***************************************************************************)
\* Largest offset the search is followed to.
MaxOffset == 400

CatalogueSizes == {0, 1, 2, ROWS - 1, ROWS, ROWS + 1, 2 * ROWS + 1}

\* The count the search endpoint may report for a catalogue of n datasets.
ReportedCounts(n) == {0, n, n + 1} \cup (IF n > 0 THEN {n - 1} ELSE {})

\* What the endpoint sends for a page: all of it, all but its last result,
\* or nothing.
Responses == {"full", "short", "none"}

Respond(page, kind) ==
    IF kind = "full" \/ page = <<>> THEN page
    ELSE IF kind = "short" THEN SubSeq(page, 1, Len(page) - 1)
    ELSE <<>>

SearchInit ==
    /\ PoolIdle
    /\ DateAgoIdle
    /\ UpToDateIdle
    /\ RuleIdle
    /\ RateIdle
    /\ catalogue \in {[k \in 1..n |-> k] : n \in CatalogueSizes}
    /\ mpc = "search_count"
    /\ sd_stable = TRUE

\* count = request_ckan(url)['count']
SdCount(c) ==
    /\ mpc = "search_count"
    /\ count' = c
    /\ list_id' = <<>>
    /\ i' = 0
    /\ nSearch' = nSearch + 1
    /\ mpc' = "search_page"
    /\ sd_stable' = (c = Len(catalogue))
    /\ UNCHANGED <<davars, utdvars, cfvars, rlvars, cmfvars, inputVars, taskVars, lockVars,
                   tableVars, datasets_ids, submitted, pbar_n, pbar_total>>

\* One turn of `while len(list_id) < count`.
SdPage(kind) ==
    /\ mpc = "search_page"
    /\ Len(list_id) < count
    /\ i <= MaxOffset
    /\ list_id' = list_id \o Respond(Page(i), kind)
    /\ i' = i + ROWS
    /\ nSearch' = nSearch + 1
    /\ sd_stable' = (sd_stable /\ Respond(Page(i), kind) = Page(i))
    /\ UNCHANGED <<davars, utdvars, cfvars, rlvars, cmfvars, inputVars, taskVars, lockVars,
                   tableVars, mpc, datasets_ids, count, submitted, pbar_n, pbar_total>>

\* return list_id
SdReturn ==
    /\ mpc = "search_page"
    /\ ~(Len(list_id) < count)
    /\ mpc' = "search_returned"
    /\ UNCHANGED <<davars, utdvars, cfvars, sdvars, rlvars, cmfvars, inputVars, searchVars,
                   taskVars, lockVars, tableVars, datasets_ids, submitted, pbar_n,
                   pbar_total>>

SearchNext ==
    \/ \E c \in ReportedCounts(Len(catalogue)) : SdCount(c)
    \/ \E kind \in Responses : SdPage(kind)
    \/ SdReturn

SearchSpec == SearchInit /\ [][SearchNext]_vars

(***************************************************************************)
(* Properties of search_datasets                                           *)
(***************************************************************************)
\* Pages requested so far.
PagesRequested == IF mpc = "search_count" THEN 0 ELSE nSearch - 1

\* The loop cannot end any more: ids are still owed, and the offset is past
\* the last dataset of the catalogue, where every page is empty.
SearchCannotEnd ==
    /\ mpc = "search_page"
    /\ Len(list_id) < count
    /\ i >= Len(catalogue)

\* C14: search_datasets reads count, then requests the pages at offsets 0,
\* 100, 200, ... in this order (the next offset is always 100 times the
\* number of pages requested) and requests a page only while the list is
\* shorter than count; it terminates whatever the catalogue answers, never
\* reaching a point where the loop cannot end; with count 0 no page is
\* requested; and when every response is true to a catalogue of count
\* datasets it returns exactly these ids, each once.
C14_SearchPagesAndTerminates ==
    /\ mpc \in {"search_page", "search_returned"} => i = ROWS * PagesRequested
    /\ (mpc = "search_page" /\ count = 0) => PagesRequested = 0
    /\ mpc = "search_returned" =>
        /\ Len(list_id) >= count
        /\ PagesRequested > 0 => Len(list_id) + ROWS > count
        /\ sd_stable => list_id = catalogue
    /\ ~SearchCannotEnd

(***************************************************************************)
(* Properties of the tables of a harvest                                   *)
(***************************************************************************)
\* C15: when the harvest returns, every row of the resources table carries
\* the id of some row of the datasets table, also when fetches fail and
\* when a payload fails to normalise part-way.
C15_ResourcesReferenceDatasets ==
    Returned =>
        \A k \in 1..Len(resources) :
            \E j \in 1..Len(datasets) : datasets[j].id = resources[k].dataset_id

\* The ids the tasks submitted so far were submitted for.
SubmittedIds == {Id(t) : t \in Submitted}

\* The rows of a table equal to row.
Copies(table, row) == {k \in 1..Len(table) : table[k] = row}

\* C16: at every point of a harvest no two rows of the datasets table carry
\* the same id, whatever the id list; no id is fetched more than once; and
\* the rows of the table are only ever appended (a step that leaves the tasks
\* running keeps the rows it found, in place), never rewritten or removed
\* (the final sort keeps every row, as often as it found it).
C16_UniqueIdsAppendOnly ==
    /\ [](/\ \A j, k \in 1..Len(datasets) :
                (datasets[j].id # NA /\ datasets[j].id = datasets[k].id) => j = k
          /\ nGet <= Cardinality(SubmittedIds))
    /\ [][/\ Len(datasets') >= Len(datasets)
          /\ mpc' # "returned" => SubSeq(datasets', 1, Len(datasets)) = datasets
          /\ \A k \in 1..Len(datasets) :
                Cardinality(Copies(datasets', datasets[k]))
                    >= Cardinality(Copies(datasets, datasets[k]))]_vars

(***************************************************************************)
(* The HTTP clients under concurrent callers: request_ckan of              *)
(* RequestsDataCatalogue behind @sleep_and_retry @limits(calls, period=1), *)
(* and get_status_code of a TenaciousSession (src/tools.py).  Time is      *)
(* followed as far as the limiter reads it: rl_age is 0 while the period   *)
(* that began at last_reset is running and 1 once it has elapsed.          *)
(***************************************************************************)
\* Threads calling the clients at once.
MaxCallers == 2

\* Most calls followed within one period.
MaxAdmitted == 7

CALLS_PER_SECOND == 5

Callers == 1..MaxCallers

RateInit ==
    /\ HarvestIdle
    /\ DateAgoIdle
    /\ UpToDateIdle
    /\ RuleIdle
    /\ SearchIdle
    /\ rl_num_calls = 0
    /\ rl_age = 0
    /\ rl_admitted = 0
    /\ rl_pc = [c \in Callers |-> "idle"]

\* The wrapper of @limits, run under the limiter's own lock: a new period
\* begins when the last one has elapsed; the call is counted; over the
\* ceiling RateLimitException is raised, which @sleep_and_retry catches to
\* sleep for the rest of the period; otherwise the request is sent.
RequestCkan(c) ==
    /\ rl_pc[c] = "idle"
    /\ LET reset == rl_age >= 1
           n == (IF reset THEN 0 ELSE rl_num_calls) + 1
           sent == IF reset THEN 0 ELSE rl_admitted
       IN  /\ rl_age' = (IF reset THEN 0 ELSE rl_age)
           /\ rl_num_calls' = n
           /\ IF n > CALLS_PER_SECOND
              THEN /\ rl_pc' = [rl_pc EXCEPT ![c] = "sleeping"]
                   /\ rl_admitted' = sent
              ELSE /\ rl_pc' = [rl_pc EXCEPT ![c] = "sent"]
                   /\ rl_admitted' = sent + 1
    /\ UNCHANGED <<hvars, davars, utdvars, cfvars, sdvars>>

\* TenaciousSession(skip_ssl=True).get_status_code(url) in add_resource: a
\* session of its own, the HEAD request sent at once.
HeadCheck(c) ==
    /\ rl_pc[c] = "idle"
    /\ rl_admitted < MaxAdmitted
    /\ rl_admitted' = rl_admitted + 1
    /\ rl_pc' = [rl_pc EXCEPT ![c] = "sent"]
    /\ UNCHANGED <<hvars, davars, utdvars, cfvars, sdvars, rl_num_calls, rl_age>>

\* The response arrives; the caller goes on to its next call.
ResponseArrives(c) ==
    /\ rl_pc[c] = "sent"
    /\ rl_pc' = [rl_pc EXCEPT ![c] = "idle"]
    /\ UNCHANGED <<hvars, davars, utdvars, cfvars, sdvars, rl_num_calls, rl_age,
                   rl_admitted>>

\* The period ends: time.sleep(period_remaining) returns in every sleeping
\* caller, which tries its call again.
PeriodElapses ==
    /\ rl_age = 0
    /\ rl_age' = 1
    /\ rl_pc' = [c \in Callers |-> IF rl_pc[c] = "sleeping" THEN "idle" ELSE rl_pc[c]]
    /\ UNCHANGED <<hvars, davars, utdvars, cfvars, sdvars, rl_num_calls, rl_admitted>>

RateNext ==
    \/ \E c \in Callers : RequestCkan(c)
    \/ \E c \in Callers : HeadCheck(c)
    \/ \E c \in Callers : ResponseArrives(c)
    \/ PeriodElapses

RateSpec == RateInit /\ [][RateNext]_vars

(***************************************************************************)
(* Properties of the HTTP clients                                          *)
(***************************************************************************)
\* C17: every HTTP call of a harvest, catalogue request or liveness HEAD
\* check, is sent only while fewer than 5 calls have been sent in the
\* running one-second period, so no period sees more than 5 calls, whoever
\* the callers are; a caller over the ceiling is put to sleep until the
\* period ends and is never failed.
C17_AllCallsUnderCeiling ==
    /\ rl_age = 0 => rl_admitted <= CALLS_PER_SECOND
    /\ \A c \in DOMAIN rl_pc :
          /\ rl_pc[c] \in {"idle", "sent", "sleeping"}
          /\ rl_pc[c] = "sleeping" => rl_num_calls > CALLS_PER_SECOND

(***************************************************************************)
(* Properties of the returned order                                        *)
(***************************************************************************)
\* keys in non-decreasing order, missing keys last.
NonDecreasing(keys) ==
    \A j, k \in 1..Len(keys) :
        j < k => (keys[k] = NA \/ (keys[j] # NA /\ keys[j] <= keys[k]))

\* The dataset rows of the tasks 1..n that fetched, task by task.
RECURSIVE DatasetRowsOfTasks(_)
DatasetRowsOfTasks(n) ==
    IF n = 0 THEN <<>>
    ELSE DatasetRowsOfTasks(n - 1)
         \o (IF dataset[n] = "none" THEN <<>>
             ELSE <<DatasetRecord(Id(n), dataset[n])>>)

\* The rows of the resources 1..r of task t that normalised.
RECURSIVE ResourceRowsOfTask(_, _)
ResourceRowsOfTask(t, r) ==
    IF r = 0 THEN <<>>
    ELSE ResourceRowsOfTask(t, r - 1)
         \o (IF res_ok[t][r] THEN <<ResourceRecord(Id(t), r)>> ELSE <<>>)

RECURSIVE ResourceRowsOfTasks(_)
ResourceRowsOfTasks(n) ==
    IF n = 0 THEN <<>>
    ELSE ResourceRowsOfTasks(n - 1) \o ResourceRowsOfTask(n, Len(res_ok[n]))

\* C18: when the harvest returns, the datasets table is in non-decreasing
\* id order and the resources table in non-decreasing dataset_id order, and
\* both are what the id list, the payloads fetched and the outcome of each
\* resource determine (the rows taken task by task in the order of the id
\* list, then sorted), whatever the interleaving of the tasks was.
C18_SortedAndDeterministic ==
    Returned =>
        /\ NonDecreasing(DatasetKeys(datasets))
        /\ NonDecreasing(ResourceKeys(resources))
        /\ LET d == DatasetRowsOfTasks(submitted)
               r == ResourceRowsOfTasks(submitted)
           IN  /\ datasets = SortValues(d, DatasetKeys(d))
               /\ resources = SortValues(r, ResourceKeys(r))

(***************************************************************************)
(* Properties of the locks                                                 *)
(***************************************************************************)
\* The task is in network I/O: the dataset fetch, or add_resource building
\* its record with the URL liveness check.
InNetworkIO(t) == pc[t] \in {"get_dataset", "add_resource"}

LocksHeld(t) ==
    {l \in {"driver", "datasets", "resources"} :
        \/ l = "driver" /\ driver_lock = t
        \/ l = "datasets" /\ datasets_lock = t
        \/ l = "resources" /\ resources_lock = t}

\* C19: a table lock is held only across one row append (from the acquire
\* to the write that releases it), never by a task in network I/O; no task
\* holds two of the three locks at once; and a task ready to append to one
\* table can take that table's lock whenever it is free, whoever holds the
\* lock of the other table.
C19_TableLocksScopedToAppend ==
    \A t \in Tasks :
        /\ datasets_lock = t => pc[t] = "ds_write"
        /\ resources_lock = t => pc[t] = "res_write"
        /\ InNetworkIO(t) => (datasets_lock # t /\ resources_lock # t)
        /\ Cardinality(LocksHeld(t)) <= 1
        /\ (pc[t] = "add_resource" /\ resources_lock = Free) => ENABLED AddResource(t)
        /\ (pc[t] = "add_dataset" /\ datasets_lock = Free) => ENABLED AddDataset(t)

\* One task holds the datasets lock for its append while another holds the
\* resources lock for its own.
C19_Witness ==
    \E t, u \in Tasks :
        /\ t # u
        /\ pc[t] = "ds_write" /\ datasets_lock = t
        /\ pc[u] = "res_write" /\ resources_lock = u

(***************************************************************************)
(* Properties of complete_missing_fields                                   *)
(***************************************************************************)
DerivedOrder == <<"modified", "up_to_date", "official_lang", "open_formats", "spec">>

\* complete_missing_fields has come to its end, by its last line or by an
\* exception.
CompletionEnded == cmf_pc \in {"ready", "raised"}

\* C20: the derived columns are written only once every worker task has
\* ended and inventory() has returned; they are written in the order
\* modified, up_to_date, official_lang, open_formats, spec (so up_to_date
\* when modified is there), each once, none rewritten, and all five by the
\* time complete_missing_fields ends; and once the first of them is written
\* neither table changes any more.
C20_DerivedColumnsOnceInOrder ==
    /\ [](/\ derived = SubSeq(DerivedOrder, 1, Len(derived))
          /\ derived # <<>> =>
                (Returned /\ \A t \in Submitted : pc[t] = "done")
          /\ CompletionEnded => derived = DerivedOrder)
    /\ [][/\ derived # <<>> => (datasets' = datasets /\ resources' = resources)
          /\ Len(derived') >= Len(derived)
          /\ SubSeq(derived', 1, Len(derived)) = derived]_vars

(***************************************************************************)
(* Termination of the harvest.  The main thread and every worker thread of *)
(* the ThreadPoolExecutor is a thread of the operating system: as long as  *)
(* it can take its next step it eventually takes it (weak fairness).  A    *)
(* thread blocked in lock.acquire() has no step to take while the lock is  *)
(* held.  A remote call in progress always has a step: it returns or it    *)
(* raises.                                                                 *)
(***************************************************************************)
\* The next step of the main thread inside inventory().
MainStep ==
    \/ Begin
    \/ SearchCount
    \/ SearchPage
    \/ SearchReturn
    \/ Submit
    \/ JoinAndSort

\* The next step of the worker thread that runs task t.
TaskStep(t) ==
    \/ EnterFetch(t)
    \/ \E payload \in Payloads : GetDataset(t, payload)
    \/ GetDatasetRaises(t)
    \/ AddDataset(t)
    \/ DsWrite(t)
    \/ AddResourceRaises(t)
    \/ AddResource(t)
    \/ ResWrite(t)
    \/ PbarUpdate(t)

Fairness ==
    /\ WF_vars(MainStep)
    /\ \A t \in Tasks : WF_vars(TaskStep(t))

FairSpec == Init /\ [][Next]_vars /\ Fairness

\* The positions where a task may block in lock.acquire(): the browser
\* lock before the fetch, the datasets lock, the resources lock.
AtAcquire(t) == pc[t] \in {"start", "add_dataset", "add_resource"}

\* C21: under fair scheduling, with every remote call returning or raising,
\* a task that has ended holds none of the three locks (whatever path it
\* took, a raising fetch or append included), no task stays for ever at a
\* lock.acquire(), and inventory() reaches its final sort and returns.
C21_HarvestTerminates ==
    /\ [](\A t \in Tasks : pc[t] = "done" => LocksHeld(t) = {})
    /\ \A t \in Tasks : AtAcquire(t) ~> ~AtAcquire(t)
    /\ <>Returned

====
